---- MODULE Spec2Model ----
(***************************************************************************)
(* Model of model/diffusion.py: the reverse-diffusion integrators of class *)
(* Diffusion (reverse_diffusion, double_forward_pitch, double_forward_text)*)
(* and the shape / masking structure of GradLogPEstimator2d.forward.       *)
(*                                                                         *)
(* Numbers are exact rationals <<num, den>> in lowest terms; a tensor      *)
(* [B, F, T] is modelled by one batch element and one feature bin, i.e. a  *)
(* sequence over the time axis (the integrators are elementwise over B and *)
(* F, only the time axis is sliced, padded or convolved).                  *)
(***************************************************************************)
EXTENDS Integers, Sequences, FiniteSets, TLC

\* ------------------------------------------------------------------ bounds
MaxT == 2
MaxN == 2
MaxSoften == 2
SqrtPrecision == 4
MaxSoftLen == 4
MaxF == 5
MaxLen == 9

\* ------------------------------------------------------- rational numbers
Abs(a) == IF a < 0 THEN -a ELSE a

RECURSIVE GCD(_, _)
GCD(a, b) == IF b = 0 THEN a ELSE GCD(b, a % b)

Norm(n, d) ==
  LET g == GCD(Abs(n), Abs(d))
      s == IF d < 0 THEN -1 ELSE 1
  IN  <<s * (n \div g), s * (d \div g)>>

R(n) == <<n, 1>>
RAdd(a, b) ==
  LET g == GCD(a[2], b[2])
  IN  Norm(a[1] * (b[2] \div g) + b[1] * (a[2] \div g), (a[2] \div g) * b[2])
RNeg(a) == <<-a[1], a[2]>>
RSub(a, b) == RAdd(a, RNeg(b))
RMul(a, b) ==
  LET x == Norm(a[1], b[2])
      y == Norm(b[1], a[2])
  IN  Norm(x[1] * y[1], x[2] * y[2])
RLt(a, b) == a[1] * b[2] < b[1] * a[2]
RLeq(a, b) == a[1] * b[2] <= b[1] * a[2]
Half == <<1, 2>>

RECURSIVE Pow2(_)
Pow2(k) == IF k = 0 THEN 1 ELSE 2 * Pow2(k - 1)

\* floor of the integer square root, by bisection
RECURSIVE ISqrt(_, _, _)
ISqrt(lo, hi, n) ==
  IF lo >= hi THEN lo
  ELSE LET mid == (lo + hi + 1) \div 2
       IN  IF mid * mid <= n THEN ISqrt(mid, hi, n) ELSE ISqrt(lo, mid - 1, n)

\* torch.sqrt on a non-negative number, to SqrtPrecision fractional units
RSqrt(a) ==
  LET s == SqrtPrecision
      n == (a[1] * s * s) \div a[2]
  IN  Norm(ISqrt(0, n + 1, n), s)

\* ---------------------------------------------------------------- tensors
TAdd(a, b) == SubSeq([p \in 1..Len(a) |-> RAdd(a[p], b[p])], 1, Len(a))
TSub(a, b) == SubSeq([p \in 1..Len(a) |-> RSub(a[p], b[p])], 1, Len(a))
TMul(a, b) == SubSeq([p \in 1..Len(a) |-> RMul(a[p], b[p])], 1, Len(a))
TScale(r, a) == SubSeq([p \in 1..Len(a) |-> RMul(r, a[p])], 1, Len(a))
Zeros(T) == [p \in 1..T |-> R(0)]
Ones(T) == [p \in 1..T |-> R(1)]
Ramp(T) == [p \in 1..T |-> R(p)]

RECURSIVE TSum(_)
TSum(a) == IF a = <<>> THEN R(0) ELSE RAdd(Head(a), TSum(Tail(a)))


\* ------------------------------------------------------------------ state
VARIABLES
  params,     \* Diffusion's construction: beta_min, beta_max, estimator weights
  args,       \* the arguments of the running call (args.op names the method)
  pc,         \* "entry" | "loop" | "returned" | "aborted"
  err,        \* the exception that ended the call, "" if none
  i,          \* the loop variable of `for i in range(n_timesteps)`
  xt,         \* the original trajectory
  xt_edit,    \* the edit trajectory (double_forward_* only)
  mask_edit,  \* local mask_edit / mask_edit_grad, after the optional softening
  est_calls,  \* number of self.estimator(...) calls made by the call
  times,      \* the step times t used so far, in order
  dxt,        \* local dxt of the last loop iteration
  dxt_edit,   \* local dxt_edit of the last loop iteration
  dxt_trg,    \* local dxt_trg of the last loop iteration (double_forward_text)
  hist,       \* what the last iteration started from: xt, xt_edit, its t, its randn draw
  prev,       \* what an earlier call of the same session returned
  unet        \* a GradLogPEstimator2d.forward call (see the second part)

dvars == <<params, args, pc, err, i, xt, xt_edit, mask_edit, est_calls, times, dxt, dxt_edit, dxt_trg, hist, prev>>
vars == <<params, args, pc, err, i, xt, xt_edit, mask_edit, est_calls, times, dxt, dxt_edit, dxt_trg, hist, prev, unet>>

\* ------------------------------------------------------------ noise schedule
\* get_noise(t, beta_init, beta_term, cumulative)
get_noise(t, beta_init, beta_term, cumulative) ==
  IF cumulative
  THEN RAdd(RMul(beta_init, t),
            RMul(Half, RMul(RSub(beta_term, beta_init), RMul(t, t))))
  ELSE RAdd(beta_init, RMul(RSub(beta_term, beta_init), t))

\* h = 1.0 / n_timesteps
StepSize(n_timesteps) == <<1, n_timesteps>>

StepTime_End(k, n_timesteps) ==
  RSub(R(1), RMul(R(k + 1), StepSize(n_timesteps)))

\* t = (1.0 - (i + 0.5) * h)
StepTime(k, n_timesteps) ==
  RSub(R(1), RMul(<<2 * k + 1, 2>>, StepSize(n_timesteps)))

\* ----------------------------------------------------------------- estimator
\* self.estimator(x, mask, mu, t): a deterministic function of its arguments and
\* of the learned weights.  forward masks x and mu on entry (Block: x * mask),
\* mixes positions (convolutions, attention) and masks its output
\* ((output * mask).squeeze(1)).  The weights w select one such function:
\*   out[p] = mask[p] * (a*x[p] + b*mu[p] + c*sum_q x[q] + d*t)   (x, mu masked)
Estimator(x, mask, mu, t, w) ==
  LET xm == TMul(x, mask)
      mum == TMul(mu, mask)
      s == TSum(xm)
  IN  [p \in 1..Len(x) |->
         RMul(mask[p],
              RAdd(RAdd(RMul(R(w.a), xm[p]), RMul(R(w.b), mum[p])),
                   RAdd(RMul(R(w.c), s), RMul(R(w.d), t))))]

NoiseT(t) == get_noise(t, params.beta_min, params.beta_max, FALSE)

\* else-branch:  dxt = 0.5 * (mu - xt - estimator(xt, mask, mu, t)); dxt * noise_t * h
DetDelta(x, mask, mu, t, h) ==
  LET e == Estimator(x, mask, mu, t, params.w)
  IN  TScale(h, TScale(NoiseT(t), TScale(Half, TSub(TSub(mu, x), e))))

StocDelta_HalfScore(x, mask, mu, t, h, draw) ==
  TAdd(DetDelta(x, mask, mu, t, h), TScale(RSqrt(RMul(NoiseT(t), h)), draw))

\* if-branch:  dxt_det = (0.5 * (mu - xt) - estimator(...)) * noise_t * h
\*             dxt_stoc = randn * sqrt(noise_t * h);  dxt = dxt_det + dxt_stoc
StocDelta(x, mask, mu, t, h, draw) ==
  LET e == Estimator(x, mask, mu, t, params.w)
      d_det == TScale(h, TScale(NoiseT(t), TSub(TScale(Half, TSub(mu, x)), e)))
      d_stoc == TScale(RSqrt(RMul(NoiseT(t), h)), draw)
  IN  TAdd(d_det, d_stoc)

\* xt = (xt - dxt) * mask
MaskedUpdate(x, d, mask) == TMul(TSub(x, d), mask)

\* ------------------------------------------------------------ mask softening
\* kernel = [2 ** ((n_soften-1)-abs(n_soften-1-i)) for i in range(2*n_soften-1)]
SoftenKernel(n_soften) ==
  [k \in 1..(2 * n_soften - 1) |-> Pow2((n_soften - 1) - Abs(n_soften - 1 - (k - 1)))]

RECURSIVE SumInts(_)
SumInts(s) == IF s = <<>> THEN 0 ELSE Head(s) + SumInts(Tail(s))

\* sum(kernel[:len(kernel)//2+1])
KernelNorm(n_soften) ==
  LET kernel == SoftenKernel(n_soften)
  IN  SumInts(SubSeq(kernel, 1, (Len(kernel) \div 2) + 1))

\* F.pad(m, (left, right, 0, 0), mode="replicate")
ReplicatePad(m, left, right) ==
  [j \in 1..(Len(m) + left + right) |->
     IF j <= left THEN m[1]
     ELSE IF j > left + Len(m) THEN m[Len(m)]
     ELSE m[j - left]]

\* F.conv2d(padded, w, bias=None, stride=1) along the time axis
Conv1d(padded, w) ==
  [p \in 1..(Len(padded) - Len(w) + 1) |->
     TSum([k \in 1..Len(w) |-> RMul(w[k], padded[p + k - 1])])]

SoftenMask_AddSmoothed(m, n_soften) ==
  LET kernel == SoftenKernel(n_soften)
      w == [k \in 1..Len(kernel) |-> Norm(kernel[k], KernelNorm(n_soften))]
      padn == Len(kernel) \div 2
  IN  TAdd(m, Conv1d(ReplicatePad(m, padn, padn), w))

\* the `if soften_mask:` block of double_forward_pitch / double_forward_text
SoftenMask(m, n_soften) ==
  LET kernel == SoftenKernel(n_soften)
      w == [k \in 1..Len(kernel) |-> Norm(kernel[k], KernelNorm(n_soften))]
      padn == Len(kernel) \div 2
      mask_edit_soft == Conv1d(ReplicatePad(m, padn, padn), w)
  IN  TAdd(m, TMul(TSub(Ones(Len(m)), m), mask_edit_soft))

\* --------------------------------------------------------------- delta blends
BlendPitch_Swapped(m, d, d_edit) ==
  TAdd(TMul(m, d), TMul(TSub(Ones(Len(m)), m), d_edit))

\* (1-mask_edit) * dxt + mask_edit * dxt_edit
BlendPitch(m, d, d_edit) ==
  TAdd(TMul(TSub(Ones(Len(m)), m), d), TMul(m, d_edit))

PitchEditUpdate_NoMask(x_edit, m, d, d_edit, mask) ==
  TSub(x_edit, BlendPitch(m, d, d_edit))

\* xt_edit = (xt_edit - ((1-mask_edit) * dxt + mask_edit * dxt_edit)) * mask
PitchEditUpdate(x_edit, m, d, d_edit, mask) ==
  MaskedUpdate(x_edit, BlendPitch(m, d, d_edit), mask)

\* mask_edit_grad * dxt_trg + (1-mask_edit_grad) * dxt_edit
BlendText(m, d_trg, d_edit) ==
  TAdd(TMul(m, d_trg), TMul(TSub(Ones(Len(m)), m), d_edit))

\* Python's a[lo:hi] for 0 <= lo, 0 <= hi on a sequence (indices clamp to the length)
PySlice(a, lo, hi) ==
  LET l == IF lo > Len(a) THEN Len(a) ELSE lo
      u == IF hi > Len(a) THEN Len(a) ELSE hi
  IN  IF u <= l THEN <<>> ELSE SubSeq(a, l + 1, u)

Relocate_ToJ1(d, T_edit, i1, j1, i2, j2) ==
  LET src == PySlice(d, i2, j2)
  IN  [p \in 1..T_edit |->
         IF p > i1 /\ p <= j1 /\ p - i1 <= Len(src) THEN src[p - i1] ELSE R(0)]

\* dxt_trg = torch.zeros_like(dxt_edit); dxt_trg[:, :, i1:i1+(j2-i2)] = dxt[:, :, i2:j2]
\* (j1 is an argument of double_forward_text that its body never reads)
Relocate(d, T_edit, i1, j1, i2, j2) ==
  LET src == PySlice(d, i2, j2)
      zeros == Zeros(T_edit)
  IN  [p \in 1..T_edit |->
         IF p > i1 /\ p <= i1 + (j2 - i2) THEN src[p - i1] ELSE zeros[p]]

AssertCondition_Stripped == TRUE

\* `assert False`: the asserted condition
AssertCondition == FALSE

\* ------------------------------------------------------------------ inputs
\* Diffusion.__init__: beta_min, beta_max and the estimator's learned weights
ParamChoices ==
  { [beta_min |-> <<1, 2>>, beta_max |-> R(3), w |-> w] :
      w \in { [a |-> 0, b |-> 0, c |-> 0, d |-> 0],
              [a |-> 1, b |-> -1, c |-> 0, d |-> 0],
              [a |-> 0, b |-> 1, c |-> 1, d |-> 1] } }

\* (z, mu) pairs of time length T
ZMu(T) == { <<Ramp(T), Zeros(T)>>, <<Ones(T), Ramp(T)>>, <<Zeros(T), Ones(T)>> }

\* sequence masks: the first L positions valid, the rest padding
PrefixMask(T, L) == [p \in 1..T |-> IF p <= L THEN R(1) ELSE R(0)]
Masks(T) == { PrefixMask(T, L) : L \in { l \in {T - 1, T} : l >= 1 } }

\* binary edit masks
EditMasks(T) == { [p \in 1..T |-> R(b[p])] : b \in [1..T -> {0, 1}] }

\* torch.randn draws (one value per call, broadcast over the time axis)
NoiseDraws(T) == { [p \in 1..T |-> R(d)] : d \in {-1, 0, 1} }

NoHist == [xt0 |-> <<>>, xt_edit0 |-> <<>>, draw |-> <<>>, t |-> R(0)]

NoArg == <<>>

ReverseArgs(z, mask, mu, n_timesteps, stoc) ==
  [op |-> "reverse_diffusion", z |-> z, z_edit |-> NoArg, mu |-> mu, mu_edit |-> NoArg,
   mask |-> mask, mask_edit |-> NoArg, mask_edit_net |-> NoArg,
   i1 |-> 0, j1 |-> 0, i2 |-> 0, j2 |-> 0,
   n_timesteps |-> n_timesteps, stoc |-> stoc, soften_mask |-> FALSE, n_soften |-> 1]

PitchArgs(z, z_edit, mu, mu_edit, mask, m_edit, n_timesteps, stoc, soften_mask, n_soften) ==
  [op |-> "double_forward_pitch", z |-> z, z_edit |-> z_edit, mu |-> mu,
   mu_edit |-> mu_edit, mask |-> mask, mask_edit |-> m_edit, mask_edit_net |-> NoArg,
   i1 |-> 0, j1 |-> 0, i2 |-> 0, j2 |-> 0,
   n_timesteps |-> n_timesteps, stoc |-> stoc, soften_mask |-> soften_mask,
   n_soften |-> n_soften]

\* args.mask_edit holds the text variant's mask_edit_grad
TextArgs(z, z_edit, mu, mu_edit, mask, m_net, m_grad, i1, j1, i2, j2, n_timesteps, stoc, soften_mask, n_soften) ==
  [op |-> "double_forward_text", z |-> z, z_edit |-> z_edit, mu |-> mu,
   mu_edit |-> mu_edit, mask |-> mask, mask_edit |-> m_grad, mask_edit_net |-> m_net,
   i1 |-> i1, j1 |-> j1, i2 |-> i2, j2 |-> j2,
   n_timesteps |-> n_timesteps, stoc |-> stoc, soften_mask |-> soften_mask,
   n_soften |-> n_soften]

\* soften_mask=False, or soften_mask=True with n_soften in 1..MaxSoften
SoftenChoices == {<<FALSE, 1>>} \cup { <<TRUE, ns>> : ns \in 1..MaxSoften }

ReverseCalls ==
  UNION { { ReverseArgs(zm[1], mask, zm[2], n, stoc) :
              zm \in ZMu(T), mask \in Masks(T), n \in 1..MaxN, stoc \in BOOLEAN } :
          T \in 1..MaxT }

\* A stoc=True call of an edit method ends in its first iteration whatever the
\* tensors are: one (z, mu) pair and one edit mask per length are drawn for it.
EditZMu(T, stoc) == IF stoc THEN { <<Ramp(T), Zeros(T)>> } ELSE ZMu(T)
TextZMu(T, stoc) == IF stoc THEN { <<Ramp(T), Zeros(T)>> }
                    ELSE { <<Ramp(T), Zeros(T)>>, <<Ones(T), Ramp(T)>> }

PitchCalls ==
  UNION { { PitchArgs(zm[1], ze[1], zm[2], ze[2], mask, me, n, Ts[2], sc[1], sc[2]) :
              zm \in EditZMu(Ts[1], Ts[2]), ze \in EditZMu(Ts[1], Ts[2]),
              mask \in Masks(Ts[1]),
              me \in IF Ts[2] THEN { Ones(Ts[1]) } ELSE EditMasks(Ts[1]),
              n \in 1..MaxN, sc \in SoftenChoices } :
          Ts \in (1..MaxT) \X BOOLEAN }

\* spans with 0 <= i2 <= j2 <= T and 0 <= i1, i1 + (j2 - i2) <= T_edit; j1 is free
Spans(T, T_edit) ==
  { s \in (0..T) \X (0..T) \X (0..T_edit) \X {0, T_edit} :
      s[1] <= s[2] /\ s[3] + (s[2] - s[1]) <= T_edit }

TextCalls ==
  UNION { { TextArgs(zm[1], ze[1], zm[2], ze[2], PrefixMask(TT[1], TT[1]),
                     PrefixMask(TT[2], TT[2]), mg, s[3], s[4], s[1], s[2],
                     n, TT[3], sc[1], sc[2]) :
              zm \in TextZMu(TT[1], TT[3]), ze \in TextZMu(TT[2], TT[3]),
              mg \in IF TT[3] THEN { Ones(TT[2]) }
                     ELSE { Zeros(TT[2]), Ones(TT[2]), PrefixMask(TT[2], 1) },
              s \in IF TT[3] THEN { <<0, TT[1], 0, 0>> } \cap Spans(TT[1], TT[2])
                    ELSE Spans(TT[1], TT[2]),
              n \in 1..MaxN, sc \in {<<FALSE, 1>>, <<TRUE, MaxSoften>>} } :
          TT \in (1..MaxT) \X (1..MaxT) \X BOOLEAN }

UNetIdle == [pc |-> "idle"]

Init ==
  /\ params \in ParamChoices
  /\ args \in ReverseCalls \cup PitchCalls \cup TextCalls
  /\ pc = "entry"
  /\ err = ""
  /\ i = 0
  /\ xt = <<>>
  /\ xt_edit = <<>>
  /\ mask_edit = <<>>
  /\ est_calls = 0
  /\ times = <<>>
  /\ dxt = <<>>
  /\ dxt_edit = <<>>
  /\ dxt_trg = <<>>
  /\ hist = NoHist
  /\ prev = [op |-> "none"]
  /\ unet = UNetIdle

\* ----------------------------------------------------------------- actions
\* reverse_diffusion: h = 1.0 / n_timesteps; xt = z * mask
ReverseEnter ==
  /\ pc = "entry" /\ args.op = "reverse_diffusion"
  /\ xt' = TMul(args.z, args.mask)
  /\ pc' = "loop"
  /\ UNCHANGED <<params, args, err, i, xt_edit, mask_edit, est_calls, times,
                 dxt, dxt_edit, dxt_trg, hist, prev, unet>>

\* double_forward_pitch up to the loop: softening, xt = z * mask, xt_edit = z_edit * mask
PitchEnter ==
  /\ pc = "entry" /\ args.op = "double_forward_pitch"
  /\ mask_edit' = IF args.soften_mask THEN SoftenMask(args.mask_edit, args.n_soften)
                  ELSE args.mask_edit
  /\ xt' = TMul(args.z, args.mask)
  /\ xt_edit' = TMul(args.z_edit, args.mask)
  /\ pc' = "loop"
  /\ UNCHANGED <<params, args, err, i, est_calls, times, dxt, dxt_edit, dxt_trg,
                 hist, prev, unet>>

\* double_forward_text up to the loop: xt_edit = z_edit * mask_edit_net
TextEnter ==
  /\ pc = "entry" /\ args.op = "double_forward_text"
  /\ mask_edit' = IF args.soften_mask THEN SoftenMask(args.mask_edit, args.n_soften)
                  ELSE args.mask_edit
  /\ xt' = TMul(args.z, args.mask)
  /\ xt_edit' = TMul(args.z_edit, args.mask_edit_net)
  /\ pc' = "loop"
  /\ UNCHANGED <<params, args, err, i, est_calls, times, dxt, dxt_edit, dxt_trg,
                 hist, prev, unet>>

InLoop(name) == pc = "loop" /\ args.op = name /\ i < args.n_timesteps

\* h and t of iteration i
H == StepSize(args.n_timesteps)
T_i == StepTime(i, args.n_timesteps)

\* one iteration of reverse_diffusion's loop, stoc=False
ReverseStepDet ==
  /\ InLoop("reverse_diffusion") /\ ~args.stoc
  /\ dxt' = DetDelta(xt, args.mask, args.mu, T_i, H)
  /\ xt' = MaskedUpdate(xt, dxt', args.mask)
  /\ times' = Append(times, T_i)
  /\ hist' = [NoHist EXCEPT !.xt0 = xt, !.t = T_i]
  /\ est_calls' = est_calls + 1
  /\ i' = i + 1
  /\ UNCHANGED <<params, args, pc, err, xt_edit, mask_edit, dxt_edit, dxt_trg, prev, unet>>

\* one iteration of reverse_diffusion's loop, stoc=True
ReverseStepStoc ==
  /\ InLoop("reverse_diffusion") /\ args.stoc
  /\ \E draw \in NoiseDraws(Len(args.z)) :
       /\ dxt' = StocDelta(xt, args.mask, args.mu, T_i, H, draw)
       /\ hist' = [NoHist EXCEPT !.xt0 = xt, !.t = T_i, !.draw = draw]
  /\ xt' = MaskedUpdate(xt, dxt', args.mask)
  /\ times' = Append(times, T_i)
  /\ est_calls' = est_calls + 1
  /\ i' = i + 1
  /\ UNCHANGED <<params, args, pc, err, xt_edit, mask_edit, dxt_edit, dxt_trg, prev, unet>>

\* one iteration of double_forward_pitch's loop, stoc=False
PitchStep ==
  /\ InLoop("double_forward_pitch") /\ ~args.stoc
  /\ dxt' = DetDelta(xt, args.mask, args.mu, T_i, H)
  /\ dxt_edit' = DetDelta(xt_edit, args.mask, args.mu_edit, T_i, H)
  /\ xt' = MaskedUpdate(xt, dxt', args.mask)
  /\ xt_edit' = PitchEditUpdate(xt_edit, mask_edit, dxt', dxt_edit', args.mask)
  /\ times' = Append(times, T_i)
  /\ hist' = [NoHist EXCEPT !.xt0 = xt, !.xt_edit0 = xt_edit, !.t = T_i]
  /\ est_calls' = est_calls + 2
  /\ i' = i + 1
  /\ UNCHANGED <<params, args, pc, err, mask_edit, dxt_trg, prev, unet>>

\* one iteration of double_forward_text's loop, stoc=False
TextStep ==
  /\ InLoop("double_forward_text") /\ ~args.stoc
  /\ dxt' = DetDelta(xt, args.mask, args.mu, T_i, H)
  /\ dxt_edit' = DetDelta(xt_edit, args.mask_edit_net, args.mu_edit, T_i, H)
  /\ xt' = MaskedUpdate(xt, dxt', args.mask)
  /\ dxt_trg' = Relocate(dxt', Len(dxt_edit'), args.i1, args.j1, args.i2, args.j2)
  /\ xt_edit' = MaskedUpdate(xt_edit, BlendText(mask_edit, dxt_trg', dxt_edit'),
                             args.mask_edit_net)
  /\ times' = Append(times, T_i)
  /\ hist' = [NoHist EXCEPT !.xt0 = xt, !.xt_edit0 = xt_edit, !.t = T_i]
  /\ est_calls' = est_calls + 2
  /\ i' = i + 1
  /\ UNCHANGED <<params, args, pc, err, mask_edit, prev, unet>>

\* the `if stoc:` branch of double_forward_pitch / double_forward_text: `assert False`
\* raises AssertionError.  Were the assertion to pass, the branch computes dxt
\* (one estimator call, one randn draw), `xt = (xt - dxt) * mask` runs, and the next
\* statement reads dxt_edit, which the branch never assigns: UnboundLocalError.
EditStepStoc ==
  /\ pc = "loop" /\ args.op \in {"double_forward_pitch", "double_forward_text"}
  /\ i < args.n_timesteps /\ args.stoc
  /\ IF ~AssertCondition
     THEN /\ err' = "AssertionError"
          /\ UNCHANGED <<xt, est_calls, times, dxt, hist>>
     ELSE /\ \E draw \in NoiseDraws(Len(args.z)) :
               /\ dxt' = StocDelta(xt, args.mask, args.mu, T_i, H, draw)
               /\ hist' = [NoHist EXCEPT !.xt0 = xt, !.t = T_i, !.draw = draw]
          /\ xt' = MaskedUpdate(xt, dxt', args.mask)
          /\ est_calls' = est_calls + 1
          /\ times' = Append(times, T_i)
          /\ err' = "UnboundLocalError"
  /\ pc' = "aborted"
  /\ UNCHANGED <<params, args, i, xt_edit, mask_edit, dxt_edit, dxt_trg, prev, unet>>

\* range(n_timesteps) is exhausted: return xt  /  return xt, xt_edit
Return ==
  /\ pc = "loop" /\ i = args.n_timesteps
  /\ pc' = "returned"
  /\ UNCHANGED <<params, args, err, i, xt, xt_edit, mask_edit, est_calls, times,
                 dxt, dxt_edit, dxt_trg, hist, prev, unet>>

\* The caller of a finished double_forward_pitch then makes the independent call
\* reverse_diffusion(z_edit, mask, mu_edit, n_timesteps) on the same model.
ReverseAfterPitch ==
  /\ pc = "returned" /\ args.op = "double_forward_pitch" /\ prev.op = "none"
  /\ prev' = [op |-> args.op, args |-> args, mask_edit |-> mask_edit,
              xt |-> xt, xt_edit |-> xt_edit]
  /\ args' = ReverseArgs(args.z_edit, args.mask, args.mu_edit, args.n_timesteps, FALSE)
  /\ pc' = "entry"
  /\ i' = 0
  /\ xt' = <<>>
  /\ xt_edit' = <<>>
  /\ mask_edit' = <<>>
  /\ est_calls' = 0
  /\ times' = <<>>
  /\ dxt' = <<>>
  /\ dxt_edit' = <<>>
  /\ dxt_trg' = <<>>
  /\ hist' = NoHist
  /\ UNCHANGED <<params, err, unet>>

Next ==
  \/ ReverseEnter
  \/ PitchEnter
  \/ TextEnter
  \/ ReverseStepDet
  \/ ReverseStepStoc
  \/ PitchStep
  \/ TextStep
  \/ EditStepStoc
  \/ Return
  \/ ReverseAfterPitch

Spec == Init /\ [][Next]_vars

\* ------------------------------------------------- the softening on its own
\* Calls of the two edit methods with every binary edit mask of length
\* 1..MaxSoftLen, soften_mask=True and one integration step.
SoftenCalls ==
  UNION { { PitchArgs(Ramp(T), Ones(T), Zeros(T), Ramp(T), Ones(T), me, 1, FALSE, TRUE, ns) :
              me \in EditMasks(T), ns \in 1..MaxSoften } : T \in 1..MaxSoftLen }
  \cup
  UNION { { TextArgs(Ramp(T), Ones(T), Zeros(T), Ramp(T), Ones(T), Ones(T), mg,
                     0, 0, 0, T, 1, FALSE, TRUE, ns) :
              mg \in EditMasks(T), ns \in 1..MaxSoften } : T \in 1..MaxSoftLen }

InitSoften ==
  /\ params \in { q \in ParamChoices : q.w.a = 1 }
  /\ args \in SoftenCalls
  /\ pc = "entry"
  /\ err = ""
  /\ i = 0
  /\ xt = <<>>
  /\ xt_edit = <<>>
  /\ mask_edit = <<>>
  /\ est_calls = 0
  /\ times = <<>>
  /\ dxt = <<>>
  /\ dxt_edit = <<>>
  /\ dxt_trg = <<>>
  /\ hist = NoHist
  /\ prev = [op |-> "none"]
  /\ unet = UNetIdle

NextSoften ==
  \/ PitchEnter
  \/ TextEnter
  \/ PitchStep
  \/ TextStep
  \/ Return

SpecSoften == InitSoften /\ [][NextSoften]_vars

\* ===================================================================
\*        GradLogPEstimator2d.forward: shapes, masks, padded positions
\* ===================================================================
\* A tensor [B, C, F, T] is [ok, c, f, t, nz]: its channel count, its two spatial
\* sizes and nz, the set of time positions (1..t) at which it is nonzero for
\* generic data and generic weights.  ok = FALSE is a raised shape error.
\* gen.bias: the learned biases are nonzero; gen.g: the Rezero gates are nonzero
\* (Rezero.__init__ sets g to zero, training moves it).
Tensor(c, f, t, nz) == [ok |-> TRUE, c |-> c, f |-> f, t |-> t, nz |-> nz]
ShapeError == [ok |-> FALSE, c |-> 0, f |-> 0, t |-> 0, nz |-> {}]

\* dim_mults=(1, 2, 4), groups=8
DimMults == <<1, 2, 4>>
Groups == 8

\* dims = [2, *map(lambda m: dim * m, dim_mults)]; in_out = list(zip(dims[:-1], dims[1:]))
Dims(dim) == <<2>> \o [k \in 1..Len(DimMults) |-> dim * DimMults[k]]
InOut(dim) == [k \in 1..Len(DimMults) |-> <<Dims(dim)[k], Dims(dim)[k + 1]>>]
NumResolutions == Len(DimMults)
\* self.ups: enumerate(reversed(in_out[1:]))
UpInOut(dim) == [j \in 1..(NumResolutions - 1) |-> InOut(dim)[NumResolutions - j + 1]]

\* the valid (non-padded) time positions of a mask [B, 1, 1, T]
Valid(m) == { p \in 1..Len(m) : m[p] = 1 }

\* x * mask, mask of shape [B, 1, 1, Tm] broadcast against x
MaskMul(x, m) ==
  IF ~x.ok THEN x
  ELSE IF x.t = Len(m) THEN [x EXCEPT !.nz = x.nz \cap Valid(m)]
  ELSE IF Len(m) = 1 THEN [x EXCEPT !.nz = IF m[1] = 1 THEN x.nz ELSE {}]
  ELSE IF x.t = 1 THEN [x EXCEPT !.t = Len(m), !.nz = IF 1 \in x.nz THEN Valid(m) ELSE {}]
  ELSE ShapeError

\* torch.nn.Conv2d output size
ConvOutSize(n, k, stride, pad) == (n + 2 * pad - k) \div stride + 1

ConvTransposeOutSize_Odd(n, k, stride, pad) == (n - 1) * stride - 2 * pad + k - 1

\* torch.nn.ConvTranspose2d output size
ConvTransposeOutSize(n, k, stride, pad) == (n - 1) * stride - 2 * pad + k

\* torch.nn.Conv2d(c_in, c_out, k, stride, pad) applied to x
Conv2d(x, c_in, c_out, k, stride, pad, bias, gen) ==
  IF ~x.ok THEN x
  ELSE IF x.c # c_in \/ x.f + 2 * pad < k \/ x.t + 2 * pad < k THEN ShapeError
  ELSE LET t2 == ConvOutSize(x.t, k, stride, pad)
       IN  Tensor(c_out, ConvOutSize(x.f, k, stride, pad), t2,
                  IF bias /\ gen.bias THEN 1..t2
                  ELSE { q \in 1..t2 :
                           \E j \in 0..(k - 1) : ((q - 1) * stride - pad + j + 1) \in x.nz })

\* torch.nn.ConvTranspose2d(c, c, k, stride, pad) applied to x
ConvTranspose2d(x, c, k, stride, pad, gen) ==
  IF ~x.ok THEN x
  ELSE IF x.c # c THEN ShapeError
  ELSE LET t2 == ConvTransposeOutSize(x.t, k, stride, pad)
       IN  Tensor(c, ConvTransposeOutSize(x.f, k, stride, pad), t2,
                  IF gen.bias THEN 1..t2
                  ELSE { q \in 1..t2 :
                           \E p \in x.nz : \E j \in 0..(k - 1) :
                             q = (p - 1) * stride - pad + j + 1 })

\* Downsample: Conv2d(dim, dim, 3, 2, 1);  Upsample: ConvTranspose2d(dim, dim, 4, 2, 1)
Downsample(x, dim, gen) == Conv2d(x, dim, dim, 3, 2, 1, TRUE, gen)
Upsample(x, dim, gen) == ConvTranspose2d(x, dim, 4, 2, 1, gen)

\* torch.nn.GroupNorm(groups, c): subtracts the mean over the whole (padded) tensor
GroupNorm(x, gen) ==
  IF ~x.ok THEN x
  ELSE IF x.c % Groups # 0 THEN ShapeError
  ELSE [x EXCEPT !.nz = IF x.nz # {} \/ gen.bias THEN 1..x.t ELSE {}]

\* a + b of equal shapes
Add(a, b) ==
  IF ~a.ok THEN a ELSE IF ~b.ok THEN b
  ELSE IF a.c # b.c \/ a.f # b.f \/ a.t # b.t THEN ShapeError
  ELSE [a EXCEPT !.nz = a.nz \cup b.nz]

\* torch.cat((a, b), dim=1)
Cat(a, b) ==
  IF ~a.ok THEN a ELSE IF ~b.ok THEN b
  ELSE IF a.f # b.f \/ a.t # b.t THEN ShapeError
  ELSE [a EXCEPT !.c = a.c + b.c, !.nz = a.nz \cup b.nz]

\* What a module saw: a tensor entering GroupNorm or LinearAttention, with the
\* mask of the resolution level it belongs to.
Seen(kind, x, m) == [kind |-> kind, x |-> x, m |-> m]

\* Block.forward: output = self.block(x * mask); return output * mask
\* (self.block = Conv2d(dim, dim_out, 3, padding=1), GroupNorm, Mish; Mish keeps zeros)
Block(x, mask, dim, dim_out, gen) ==
  LET conv == Conv2d(MaskMul(x, mask), dim, dim_out, 3, 1, 1, TRUE, gen)
  IN  [out |-> MaskMul(GroupNorm(conv, gen), mask), seen |-> <<Seen("GroupNorm", conv, mask)>>]

\* ResnetBlock.forward
ResnetBlock(x, mask, dim, dim_out, gen) ==
  LET b1 == Block(x, mask, dim, dim_out, gen)
      \* h += self.mlp(time_emb).unsqueeze(-1).unsqueeze(-1)
      h == IF b1.out.ok THEN [b1.out EXCEPT !.nz = 1..b1.out.t] ELSE b1.out
      b2 == Block(h, mask, dim_out, dim_out, gen)
      \* res_conv: Conv2d(dim, dim_out, 1) if dim != dim_out else Identity
      res == IF dim # dim_out THEN Conv2d(MaskMul(x, mask), dim, dim_out, 1, 1, 0, TRUE, gen)
             ELSE MaskMul(x, mask)
  IN  [out |-> Add(b2.out, res), seen |-> b1.seen \o b2.seen]

\* Residual(Rezero(LinearAttention(dim))): fn(x) * g + x.  to_qkv has no bias, the
\* softmax weights are positive everywhere, to_out has a bias.
Attention(x, dim, gen) ==
  LET qkv == Conv2d(x, dim, dim, 1, 1, 0, FALSE, gen)
      out == Conv2d(qkv, dim, dim, 1, 1, 0, TRUE, gen)
      gated == IF out.ok /\ ~gen.g THEN [out EXCEPT !.nz = {}] ELSE out
  IN  Add(gated, x)

StrideMask_Odd(m) == [q \in 1..(Len(m) \div 2) |-> m[2 * q]]

\* mask_down[:, :, :, ::2]
StrideMask(m) == [q \in 1..((Len(m) + 1) \div 2) |-> m[2 * q - 1]]

\* ------------------------------------------------------------ forward, by steps
\* unet.level: the index of the current entry of self.downs / self.ups (from 1)
NetAt(name) == unet.pc = name
Advance(x, name) == IF x.ok THEN name ELSE "error"

\* t = ...; x = torch.stack([mu, x], 1); mask = mask.unsqueeze(1); hiddens = []; masks = [mask]
NetStack ==
  /\ NetAt("entry")
  /\ unet' = [unet EXCEPT !.pc = "down_resnet1", !.level = 1,
                          !.x = Tensor(2, unet.F, unet.T, 1..unet.T),
                          !.hiddens = <<>>,
                          !.masks = <<[m |-> unet.mask, level |-> 1]>>]
  /\ UNCHANGED dvars

MaskDown == unet.masks[Len(unet.masks)].m

\* mask_down = masks[-1]; x = resnet1(x, mask_down, t)
DownResnet1 ==
  /\ NetAt("down_resnet1")
  /\ LET io == InOut(unet.dim)[unet.level]
         r == ResnetBlock(unet.x, MaskDown, io[1], io[2], unet.gen)
     IN  unet' = [unet EXCEPT !.pc = Advance(r.out, "down_resnet2"), !.x = r.out,
                              !.seen = r.seen]
  /\ UNCHANGED dvars

\* x = resnet2(x, mask_down, t)
DownResnet2 ==
  /\ NetAt("down_resnet2")
  /\ LET io == InOut(unet.dim)[unet.level]
         r == ResnetBlock(unet.x, MaskDown, io[2], io[2], unet.gen)
     IN  unet' = [unet EXCEPT !.pc = Advance(r.out, "down_attn"), !.x = r.out,
                              !.seen = r.seen]
  /\ UNCHANGED dvars

\* x = attn(x)
DownAttn ==
  /\ NetAt("down_attn")
  /\ LET io == InOut(unet.dim)[unet.level]
         y == Attention(unet.x, io[2], unet.gen)
     IN  unet' = [unet EXCEPT !.pc = Advance(y, "down_sample"), !.x = y,
                              !.seen = <<Seen("LinearAttention", unet.x, MaskDown)>>]
  /\ UNCHANGED dvars

\* hiddens.append(x); x = downsample(x * mask_down); masks.append(mask_down[:, :, :, ::2])
\* (downsample is Identity on the last level); then the next level, or past the loop
DownSample ==
  /\ NetAt("down_sample")
  /\ LET io == InOut(unet.dim)[unet.level]
         is_last == unet.level >= NumResolutions
         xm == MaskMul(unet.x, MaskDown)
         y == IF is_last THEN xm ELSE Downsample(xm, io[2], unet.gen)
     IN  unet' = [unet EXCEPT
                    !.pc = Advance(y, IF is_last THEN "mid" ELSE "down_resnet1"),
                    !.level = IF is_last THEN 1 ELSE unet.level + 1,
                    !.x = y,
                    !.x_in = unet.x,
                    !.hiddens = Append(unet.hiddens, [x |-> unet.x, level |-> unet.level]),
                    !.masks = Append(unet.masks,
                                     [m |-> StrideMask(MaskDown), level |-> unet.level + 1]),
                    !.seen = <<>>]
  /\ UNCHANGED dvars

\* masks = masks[:-1]; mask_mid = masks[-1]; mid_block1; mid_attn; mid_block2
Mid ==
  /\ NetAt("mid")
  /\ LET masks == SubSeq(unet.masks, 1, Len(unet.masks) - 1)
         mask_mid == masks[Len(masks)].m
         mid_dim == Dims(unet.dim)[Len(Dims(unet.dim))]
         r1 == ResnetBlock(unet.x, mask_mid, mid_dim, mid_dim, unet.gen)
         y == Attention(r1.out, mid_dim, unet.gen)
         r2 == ResnetBlock(y, mask_mid, mid_dim, mid_dim, unet.gen)
     IN  unet' = [unet EXCEPT !.pc = Advance(r2.out, "up_pop"), !.x = r2.out,
                              !.masks = masks,
                              !.seen = r1.seen \o <<Seen("LinearAttention", r1.out, mask_mid)>>
                                       \o r2.seen]
  /\ UNCHANGED dvars

\* mask_up = masks.pop(); x = torch.cat((x, hiddens.pop()), dim=1)
UpPopCat ==
  /\ NetAt("up_pop")
  /\ LET mask_up == unet.masks[Len(unet.masks)]
         hidden == unet.hiddens[Len(unet.hiddens)]
         y == Cat(unet.x, hidden.x)
     IN  unet' = [unet EXCEPT !.pc = Advance(y, "up_resnet1"), !.x = y,
                              !.masks = SubSeq(unet.masks, 1, Len(unet.masks) - 1),
                              !.hiddens = SubSeq(unet.hiddens, 1, Len(unet.hiddens) - 1),
                              !.mask_up = mask_up.m,
                              !.popped = Append(unet.popped,
                                                [mask |-> mask_up.level, hidden |-> hidden.level,
                                                 skip |-> hidden.x, m |-> mask_up.m]),
                              !.seen = <<>>]
  /\ UNCHANGED dvars

\* x = resnet1(x, mask_up, t)
UpResnet1 ==
  /\ NetAt("up_resnet1")
  /\ LET io == UpInOut(unet.dim)[unet.level]
         r == ResnetBlock(unet.x, unet.mask_up, io[2] * 2, io[1], unet.gen)
     IN  unet' = [unet EXCEPT !.pc = Advance(r.out, "up_resnet2"), !.x = r.out,
                              !.seen = r.seen]
  /\ UNCHANGED dvars

\* x = resnet2(x, mask_up, t)
UpResnet2 ==
  /\ NetAt("up_resnet2")
  /\ LET io == UpInOut(unet.dim)[unet.level]
         r == ResnetBlock(unet.x, unet.mask_up, io[1], io[1], unet.gen)
     IN  unet' = [unet EXCEPT !.pc = Advance(r.out, "up_attn"), !.x = r.out,
                              !.seen = r.seen]
  /\ UNCHANGED dvars

\* x = attn(x)
UpAttn ==
  /\ NetAt("up_attn")
  /\ LET io == UpInOut(unet.dim)[unet.level]
         y == Attention(unet.x, io[1], unet.gen)
     IN  unet' = [unet EXCEPT !.pc = Advance(y, "up_sample"), !.x = y,
                              !.seen = <<Seen("LinearAttention", unet.x, unet.mask_up)>>]
  /\ UNCHANGED dvars

\* x = upsample(x * mask_up); then the next entry of self.ups, or past the loop
UpSample ==
  /\ NetAt("up_sample")
  /\ LET io == UpInOut(unet.dim)[unet.level]
         is_last == unet.level >= NumResolutions - 1
         y == Upsample(MaskMul(unet.x, unet.mask_up), io[1], unet.gen)
     IN  unet' = [unet EXCEPT !.pc = Advance(y, IF is_last THEN "final" ELSE "up_pop"),
                              !.level = IF is_last THEN 1 ELSE unet.level + 1,
                              !.x = y,
                              !.x_in = unet.x,
                              !.seen = <<>>]
  /\ UNCHANGED dvars

\* x = self.final_block(x, mask); output = self.final_conv(x * mask);
\* return (output * mask).squeeze(1)
Final ==
  /\ NetAt("final")
  /\ LET b == Block(unet.x, unet.mask, unet.dim, unet.dim, unet.gen)
         output == Conv2d(MaskMul(b.out, unet.mask), unet.dim, 1, 1, 1, 0, TRUE, unet.gen)
         y == MaskMul(output, unet.mask)
     IN  unet' = [unet EXCEPT !.pc = Advance(y, "returned"), !.x = y, !.seen = b.seen]
  /\ UNCHANGED dvars

\* forward(x, mask, mu, t) with x, mu of shape [B, F, T] and a sequence mask [B, 1, T];
\* dim is the constructor's base width
NetCalls ==
  { [pc |-> "entry", F |-> F, T |-> TL[1], dim |-> dim,
     mask |-> [p \in 1..TL[1] |-> IF p <= TL[2] THEN 1 ELSE 0],
     gen |-> gen, level |-> 0, x |-> ShapeError, x_in |-> ShapeError,
     hiddens |-> <<>>, masks |-> <<>>, mask_up |-> <<>>, popped |-> <<>>, seen |-> <<>>] :
      F \in 1..MaxF,
      TL \in { tl \in (1..MaxLen) \X (1..MaxLen) : tl[2] <= tl[1] /\ tl[2] >= tl[1] - 2 },
      dim \in {8, 16},
      gen \in [bias : BOOLEAN, g : BOOLEAN] }

InitNet ==
  /\ params \in { q \in ParamChoices : q.w.a = 1 }
  /\ args = [op |-> "none"]
  /\ pc = "idle"
  /\ err = ""
  /\ i = 0
  /\ xt = <<>>
  /\ xt_edit = <<>>
  /\ mask_edit = <<>>
  /\ est_calls = 0
  /\ times = <<>>
  /\ dxt = <<>>
  /\ dxt_edit = <<>>
  /\ dxt_trg = <<>>
  /\ hist = NoHist
  /\ prev = [op |-> "none"]
  /\ unet \in NetCalls

NextNet ==
  \/ NetStack
  \/ DownResnet1
  \/ DownResnet2
  \/ DownAttn
  \/ DownSample
  \/ Mid
  \/ UpPopCat
  \/ UpResnet1
  \/ UpResnet2
  \/ UpAttn
  \/ UpSample
  \/ Final

SpecNet == InitNet /\ [][NextNet]_vars

\* ===================================================================
\*                              claims
\* ===================================================================
IsEdit == args.op \in {"double_forward_pitch", "double_forward_text"}
Running == pc \in {"loop", "returned"}
TLen == Len(args.z)
AllZero(m) == \A p \in 1..Len(m) : m[p] = R(0)
AllOne(m) == \A p \in 1..Len(m) : m[p] = R(1)

\* C2: double_forward_pitch with stoc=False, z_edit = z, mu_edit = mu and an
\* all-zero mask_edit keeps xt_edit equal to xt on entry to the loop, after every
\* integration step and in the returned pair, with and without softening.
C2_ZeroMaskFollowsOriginal ==
  ( /\ args.op = "double_forward_pitch" /\ ~args.stoc /\ Running
    /\ args.z_edit = args.z /\ args.mu_edit = args.mu /\ AllZero(args.mask_edit) )
  => xt_edit = xt

C2_Witness ==
  /\ args.op = "double_forward_pitch" /\ ~args.stoc /\ pc = "returned"
  /\ args.z_edit = args.z /\ args.mu_edit = args.mu /\ AllZero(args.mask_edit)
  /\ args.soften_mask /\ args.n_soften = 2 /\ args.n_timesteps = 2 /\ i = 2
  /\ \E p \in 1..TLen : args.mask[p] = R(0) /\ args.mu[p] # R(0)
  /\ xt # TMul(args.z, args.mask)

\* C3: after a double_forward_pitch call with stoc=False and an all-one mask_edit,
\* the independent call reverse_diffusion(z_edit, mask, mu_edit, n_timesteps)
\* returns exactly the xt_edit the edit call returned.
C3_OneMaskIsIndependentReverse ==
  ( /\ args.op = "reverse_diffusion" /\ pc = "returned"
    /\ prev.op = "double_forward_pitch" /\ AllOne(prev.args.mask_edit) )
  => ( /\ args.z = prev.args.z_edit /\ args.mu = prev.args.mu_edit
       /\ args.mask = prev.args.mask /\ args.n_timesteps = prev.args.n_timesteps
       /\ xt = prev.xt_edit )

C3_Witness ==
  /\ args.op = "reverse_diffusion" /\ pc = "returned"
  /\ prev.op = "double_forward_pitch" /\ AllOne(prev.args.mask_edit)
  /\ prev.args.soften_mask /\ prev.args.n_timesteps = 2
  /\ prev.args.z # prev.args.z_edit /\ prev.args.mu # prev.args.mu_edit
  /\ prev.xt # prev.xt_edit
  /\ xt = prev.xt_edit

\* What the deterministic branch would do from the state the last iteration
\* started in.
DetDeltaOfLast == DetDelta(hist.xt0, args.mask, args.mu, hist.t, H)
EstimateOfLast == Estimator(hist.xt0, args.mask, args.mu, hist.t, params.w)
NoiseTermOfLast == TScale(RSqrt(RMul(NoiseT(hist.t), H)), hist.draw)
StocStepDone == args.op = "reverse_diffusion" /\ args.stoc /\ i >= 1

\* C4 as claimed: the stoc=True update is the stoc=False update plus the noise
\* term, so a step whose draw is zero gives the deterministic step's xt.
C4_StocIsDetPlusNoise ==
  StocStepDone =>
    /\ dxt = TAdd(DetDeltaOfLast, NoiseTermOfLast)
    /\ AllZero(hist.draw) => xt = MaskedUpdate(hist.xt0, DetDeltaOfLast, args.mask)

\* C4 as amended: the stoc=True update is (0.5*(mu - xt) - estimate)*noise_t*h plus
\* the noise term, i.e. the stoc=False update minus 0.5*estimate*noise_t*h plus the
\* noise term; a step whose draw is zero gives the deterministic step's xt exactly
\* when the estimate is zero everywhere.
C4_StocUsesFullEstimate ==
  StocStepDone =>
    /\ dxt = TAdd(TSub(DetDeltaOfLast,
                       TScale(RMul(Half, RMul(NoiseT(hist.t), H)), EstimateOfLast)),
                  NoiseTermOfLast)
    /\ AllZero(hist.draw) =>
         ( xt = MaskedUpdate(hist.xt0, DetDeltaOfLast, args.mask)
           <=> AllZero(EstimateOfLast) )

C4_Witness ==
  /\ StocStepDone /\ AllZero(hist.draw) /\ ~AllZero(EstimateOfLast)
  /\ xt # MaskedUpdate(hist.xt0, DetDeltaOfLast, args.mask)

\* C5: an edit method called with stoc=True never returns: its first loop
\* iteration raises AssertionError before any estimator call and before any
\* update of xt or xt_edit.
C5_StocEditAborts ==
  (IsEdit /\ args.stoc) =>
    /\ pc # "returned"
    /\ est_calls = 0 /\ i = 0 /\ times = <<>>
    /\ pc \in {"loop", "aborted"} =>
         /\ xt = TMul(args.z, args.mask)
         /\ xt_edit = TMul(args.z_edit,
                           IF args.op = "double_forward_text" THEN args.mask_edit_net
                           ELSE args.mask)
    /\ pc = "aborted" => err = "AssertionError"

C5_Witness ==
  /\ args.op = "double_forward_text" /\ args.stoc /\ pc = "aborted"
  /\ err = "AssertionError" /\ args.n_timesteps = 2 /\ args.soften_mask

\* C6: deterministic reverse_diffusion starts from z*mask, makes one estimator call
\* per iteration at t_k = 1-(k+0.5)/n (strictly decreasing, strictly inside (0,1)),
\* applies xt := (xt - 0.5*(mu - xt - estimate)*noise(t_k)*h)*mask, and returns
\* after exactly n iterations; with n = 1 it is one Euler step at t = 0.5.
EulerStep(x, t, n) ==
  [p \in 1..Len(x) |->
     RMul(args.mask[p],
          RSub(x[p],
               RMul(RMul(RMul(Half,
                              RSub(RSub(args.mu[p], x[p]),
                                   Estimator(x, args.mask, args.mu, t, params.w)[p])),
                         RAdd(params.beta_min,
                              RMul(RSub(params.beta_max, params.beta_min), t))),
                    <<1, n>>)))]

C6_ReverseIsMidpointEuler ==
  (args.op = "reverse_diffusion" /\ ~args.stoc /\ Running) =>
    LET n == args.n_timesteps IN
    /\ i <= n /\ Len(times) = i /\ est_calls = i
    /\ pc = "returned" => i = n
    /\ i = 0 => xt = TMul(args.z, args.mask)
    /\ \A k \in 1..i :
         /\ times[k][1] * 2 * n = (2 * n - 2 * (k - 1) - 1) * times[k][2]
         /\ RLt(R(0), times[k]) /\ RLt(times[k], R(1))
         /\ k > 1 => RLt(times[k], times[k - 1])
    /\ i >= 1 => xt = EulerStep(hist.xt0, times[i], n)
    /\ (n = 1 /\ pc = "returned") => xt = EulerStep(TMul(args.z, args.mask), Half, 1)

C6_Witness ==
  /\ args.op = "reverse_diffusion" /\ ~args.stoc /\ pc = "returned"
  /\ prev.op = "none" /\ args.n_timesteps = 2 /\ times = << <<3, 4>>, <<1, 4>> >>
  /\ xt # TMul(args.z, args.mask) /\ xt # hist.xt0

\* C8: every deterministic step of double_forward_text subtracts from xt_edit, at
\* time index p, mask_edit_grad[p]*trg[p] + (1-mask_edit_grad[p])*dxt_edit[p], where
\* trg[p] is dxt at index p-i1+i2 for p in [i1, i1+(j2-i2)) and zero elsewhere
\* (indices from 0); j1 does not occur in the result.
Trg(p0) ==
  IF args.i1 <= p0 /\ p0 < args.i1 + (args.j2 - args.i2)
  THEN dxt[(p0 - args.i1 + args.i2) + 1]
  ELSE R(0)

C8_TextDeltaRelocation ==
  (args.op = "double_forward_text" /\ ~args.stoc /\ i >= 1) =>
    /\ Len(xt_edit) = Len(args.z_edit) /\ Len(xt) = Len(args.z)
    /\ \A p \in 1..Len(xt_edit) :
         xt_edit[p] =
           RMul(RSub(hist.xt_edit0[p],
                     RAdd(RMul(mask_edit[p], Trg(p - 1)),
                          RMul(RSub(R(1), mask_edit[p]), dxt_edit[p]))),
                args.mask_edit_net[p])
    /\ xt = TMul(TSub(hist.xt0, dxt), args.mask)

C8_Witness ==
  /\ args.op = "double_forward_text" /\ ~args.stoc /\ pc = "returned"
  /\ args.i1 # args.i2 /\ args.j2 > args.i2
  /\ args.j1 # args.i1 + (args.j2 - args.i2)
  /\ Len(args.z) # Len(args.z_edit)
  /\ \E p \in 1..Len(xt_edit) :
       /\ mask_edit[p] # R(0) /\ Trg(p - 1) # R(0) /\ Trg(p - 1) # dxt_edit[p]
       /\ dxt_trg[p] = Trg(p - 1)

\* C10: the softened edit mask lies in [0,1] at every position, is 1 wherever the
\* binary mask is 1 and is all zero when the binary mask is all zero, so the blend
\* weights m and 1-m of every step are non-negative and sum to 1.
C10_SoftMaskIsConvexWeight ==
  (IsEdit /\ args.soften_mask /\ Running) =>
    /\ Len(mask_edit) = Len(args.mask_edit)
    /\ \A p \in 1..Len(mask_edit) :
         /\ RLeq(R(0), mask_edit[p]) /\ RLeq(mask_edit[p], R(1))
         /\ args.mask_edit[p] = R(1) => mask_edit[p] = R(1)
         /\ RLeq(R(0), RSub(R(1), mask_edit[p]))
         /\ RAdd(mask_edit[p], RSub(R(1), mask_edit[p])) = R(1)
    /\ AllZero(args.mask_edit) => AllZero(mask_edit)

C10_Witness ==
  /\ IsEdit /\ args.soften_mask /\ pc = "returned" /\ args.n_soften = 2
  /\ Len(mask_edit) = 4
  /\ \E p \in 1..Len(mask_edit) : RLt(R(0), mask_edit[p]) /\ RLt(mask_edit[p], R(1))
  /\ \E p \in 1..Len(mask_edit) : mask_edit[p] = R(1)
  /\ \E p \in 1..Len(mask_edit) : mask_edit[p] = R(0)

\* ------------------------------------------------ claims about forward
NetEnded == unet.pc \in {"returned", "error"}
ReturnsInputShape == unet.pc = "returned" /\ unet.x.f = unet.F /\ unet.x.t = unet.T
JustDownsampled == unet.pc = "down_resnet1" /\ unet.level > 1
JustUpsampled == (unet.pc = "up_pop" /\ unet.level > 1) \/ unet.pc \in {"final", "returned"}

\* C1 as claimed: for every F >= 1 and T >= 1 forward completes and returns a
\* tensor of shape [B, F, T].
C1_ForwardTotalOnAllShapes == NetEnded => ReturnsInputShape

\* C1 as amended: with the default three resolution levels forward completes and
\* returns shape [B, F, T] exactly when F and T are both multiples of 4
\* (2^(levels-1)); each Downsample maps a size n to floor((n-1)/2)+1, each Upsample
\* maps n to 2n, and up level j concatenates the skip stored at down level
\* levels-j+1.
C1_ForwardNeedsMultiplesOfFour ==
  /\ NetEnded =>
       ( ReturnsInputShape
         <=> (unet.F % Pow2(NumResolutions - 1) = 0 /\ unet.T % Pow2(NumResolutions - 1) = 0) )
  /\ JustDownsampled =>
       /\ unet.x.f = ((unet.x_in.f - 1) \div 2) + 1
       /\ unet.x.t = ((unet.x_in.t - 1) \div 2) + 1
  /\ (JustUpsampled /\ unet.pc # "returned") =>
       /\ unet.x.f = 2 * unet.x_in.f
       /\ unet.x.t = 2 * unet.x_in.t
  /\ \A k \in 1..Len(unet.popped) : unet.popped[k].hidden = NumResolutions - k + 1
  /\ unet.pc = "up_resnet1" =>
       unet.x.c = 2 * unet.popped[Len(unet.popped)].skip.c

C1_Witness ==
  /\ ReturnsInputShape /\ unet.F = 4 /\ unet.T = 8
  /\ Valid(unet.mask) # 1..unet.T /\ Len(unet.popped) = 2

\* C7: at every resolution level the mask of that level has the time length of the
\* tensor of that level; each up iteration pops the mask and the skip tensor of one
\* and the same down level, deepest level first.
C7_MasksFollowTheTensor ==
  /\ unet.pc \in {"down_resnet1", "down_resnet2", "down_attn", "down_sample"} =>
       /\ Len(unet.masks) = unet.level /\ MaskDown = unet.masks[unet.level].m
       /\ Len(MaskDown) = unet.x.t
  /\ unet.pc = "mid" => Len(unet.masks[Len(unet.masks) - 1].m) = unet.x.t
  /\ \A k \in 1..Len(unet.popped) :
       /\ unet.popped[k].mask = unet.popped[k].hidden
       /\ unet.popped[k].hidden = NumResolutions - k + 1
       /\ Len(unet.popped[k].m) = unet.popped[k].skip.t

C7_Witness ==
  /\ unet.pc = "up_resnet1" /\ Len(unet.popped) = 2 /\ unet.T = 7
  /\ unet.popped[1].skip.t = 2 /\ unet.popped[2].skip.t = 4

\* C9: every tensor entering a GroupNorm or a LinearAttention, and every stored
\* skip tensor, is zero at every padded position of its resolution level.
ZeroWherePadded(x, m) == x.ok => (x.t = Len(m) /\ x.nz \subseteq Valid(m))
C9_GroupNormInputsMasked ==
  \A k \in 1..Len(unet.seen) :
    unet.seen[k].kind = "GroupNorm" => ZeroWherePadded(unet.seen[k].x, unet.seen[k].m)
C9_AttentionInputsMasked ==
  \A k \in 1..Len(unet.seen) :
    unet.seen[k].kind = "LinearAttention" => ZeroWherePadded(unet.seen[k].x, unet.seen[k].m)
C9_SkipsMasked ==
  \A k \in 1..Len(unet.hiddens) :
    ZeroWherePadded(unet.hiddens[k].x, unet.masks[unet.hiddens[k].level].m)
C9_PaddedPositionsStayZero ==
  C9_GroupNormInputsMasked /\ C9_AttentionInputsMasked /\ C9_SkipsMasked

================================================================
